---- MODULE Spec2Model ----
(***************************************************************************)
(* Model of libs/cards.py: the Card value type (validated construction and *)
(* the rank-primary comparisons), the CardStack container (push_card and   *)
(* pop_card on a private list), the free routine set_shuffled_cards, and   *)
(* the module's __main__ drain loop.                                       *)
(*                                                                         *)
(* Every Python value is a record with a "type" field, so that a Card, a   *)
(* None, a raised exception and a value of another type are told apart the *)
(* way isinstance and the exception channel tell them apart.               *)
(***************************************************************************)
EXTENDS Integers, Sequences, FiniteSets, TLC

VARIABLES
    card_stack,  \* CardStack.__card_stack, tail of the list = end of the sequence
    history,     \* the calls made on the stack so far, each with argument and outcome
    rng_draws,   \* number of unrestricted draws the random source has served
    pc,          \* position of the __main__ script ("lib" when only imported)
    cnt,         \* __main__'s cnt
    card,        \* __main__'s card
    made,        \* the latest Card(suit, rank) call: arguments and outcome
    cmp          \* a pair of comparison operands and the outcomes of ==, <, >

vars == <<card_stack, history, rng_draws, pc, cnt, card, made, cmp>>

----------------------------------------------------------------------------
(* Bounds of the model *)

\* how far outside the valid ranges the integers given to Card(...) reach
Slack == 2
\* calls made on one CardStack in the push/pop specification
MaxCalls == 6
\* cards pushed by the caller before the population routine runs
MaxPre == 1
\* calls of the population routine on one stack
MaxPopulate == 2
\* draws of random.shuffle that are left unrestricted over one run
MaxRandomDraws == 2
\* how far below the current index an unrestricted draw may land
MaxSwapSpan == 5

----------------------------------------------------------------------------
(* Module constants *)

SUIT_NAMES == (1 :> "club") @@ (2 :> "diamond") @@ (3 :> "heart") @@ (4 :> "spade")

JOKER_SUIT == 5

RANK_CHARS ==
    [n \in 2..9 |-> <<"2", "3", "4", "5", "6", "7", "8", "9">>[n - 1]]
        @@ (10 :> "T") @@ (11 :> "J") @@ (12 :> "Q") @@ (13 :> "K") @@ (14 :> "A")

JOKER_RANK == 15

SetMin(S) == CHOOSE x \in S : \A y \in S : x <= y

SetMax(S) == CHOOSE x \in S : \A y \in S : x >= y

min_suit == SetMin(DOMAIN SUIT_NAMES)

max_suit == SetMax(DOMAIN SUIT_NAMES)

min_rank == SetMin(DOMAIN RANK_CHARS)

max_rank == SetMax(DOMAIN RANK_CHARS)

----------------------------------------------------------------------------
(* Python values *)

None == [type |-> "NoneType"]

Unbound == [type |-> "unbound"]

Bool(b) == [type |-> "bool", value |-> b]

TypeError == [type |-> "TypeError", msg |-> "Argument is not 'Card' class."]

ValueError(what) == [type |-> "ValueError", msg |-> what]

\* values that are not instances of Card
NonCards == {None, [type |-> "int", value |-> 7], [type |-> "str", text |-> "hQ"]}

isinstance_Card(v) == v.type = "Card"

----------------------------------------------------------------------------
(* Card *)

\* faulty variant: the rank check uses a strict lower bound
Card_strict_rank(suit, rank) ==
    IF ~(min_suit <= suit /\ suit <= JOKER_SUIT)
    THEN ValueError("Suit range")
    ELSE IF ~(min_rank < rank /\ rank <= JOKER_RANK)
         THEN ValueError("Rank range")
         ELSE [type |-> "Card", suit |-> suit, rank |-> rank]

\* Card(suit, rank): the dataclass constructor followed by __post_init__
Card(suit, rank) ==
    IF ~(min_suit <= suit /\ suit <= JOKER_SUIT)
    THEN ValueError("Suit range")
    ELSE IF ~(min_rank <= rank /\ rank <= JOKER_RANK)
         THEN ValueError("Rank range")
         ELSE [type |-> "Card", suit |-> suit, rank |-> rank]

\* faulty variant: the default card keeps the Joker suit but takes the highest mapped rank
DefaultCard_ace == Card(JOKER_SUIT, max_rank)

\* Card(): both fields default to the Joker values
DefaultCard == Card(JOKER_SUIT, JOKER_RANK)

\* Card.__eq__
Card_eq(self, other) ==
    IF ~isinstance_Card(other) THEN TypeError
    ELSE Bool(self.rank = other.rank)

\* faulty variant: no fall-back to the suits when the ranks are equal
Card_lt_rank_only(self, other) ==
    IF ~isinstance_Card(other) THEN TypeError
    ELSE Bool(self.rank < other.rank)

\* Card.__lt__
Card_lt(self, other) ==
    IF ~isinstance_Card(other) THEN TypeError
    ELSE IF Card_eq(self, other).value
         THEN Bool(self.suit < other.suit)
         ELSE Bool(self.rank < other.rank)

\* faulty variant: the suit fall-back compares with >=
Card_gt_or_equal(self, other) ==
    IF ~isinstance_Card(other) THEN TypeError
    ELSE IF Card_eq(self, other).value
         THEN Bool(self.suit >= other.suit)
         ELSE Bool(self.rank > other.rank)

\* Card.__gt__
Card_gt(self, other) ==
    IF ~isinstance_Card(other) THEN TypeError
    ELSE IF Card_eq(self, other).value
         THEN Bool(self.suit > other.suit)
         ELSE Bool(self.rank > other.rank)

\* faulty variant: truthiness follows rank_char, so the Joker is falsy
Truthy_rank_char(v) ==
    IF v.type = "NoneType" THEN FALSE
    ELSE IF v.type = "Card" THEN v.rank \in DOMAIN RANK_CHARS
    ELSE TRUE

\* bool(v) as `while card:` evaluates it: Card defines neither __bool__ nor
\* __len__, so every Card is true and None is false
Truthy(v) == v.type # "NoneType"

----------------------------------------------------------------------------
(* CardStack *)

Front(s) == SubSeq(s, 1, Len(s) - 1)

Last(s) == s[Len(s)]

\* faulty variant: no isinstance check, whatever is given is appended
push_card_unchecked(stack, c) ==
    [stack |-> Append(stack, c), ret |-> None]

\* faulty variant: the card is inserted at the head of the list
push_card_front(stack, c) ==
    IF ~isinstance_Card(c)
    THEN [stack |-> stack, ret |-> TypeError]
    ELSE [stack |-> <<c>> \o stack, ret |-> None]

\* CardStack.push_card: the list after the call and what the call returned or raised
push_card(stack, c) ==
    IF ~isinstance_Card(c)
    THEN [stack |-> stack, ret |-> TypeError]
    ELSE [stack |-> Append(stack, c), ret |-> None]

\* faulty variant: list.pop(0), the head is removed
pop_card_head(stack) ==
    IF stack # <<>>
    THEN [stack |-> Tail(stack), ret |-> Head(stack)]
    ELSE [stack |-> stack, ret |-> None]

\* faulty variant: no emptiness check, list.pop() on an empty list raises IndexError
pop_card_unguarded(stack) ==
    IF stack # <<>>
    THEN [stack |-> Front(stack), ret |-> Last(stack)]
    ELSE [stack |-> stack, ret |-> [type |-> "IndexError", msg |-> "pop from empty list"]]

\* CardStack.pop_card
pop_card(stack) ==
    IF stack # <<>>
    THEN [stack |-> Front(stack), ret |-> Last(stack)]
    ELSE [stack |-> stack, ret |-> None]

----------------------------------------------------------------------------
(* set_shuffled_cards *)

JokerSet == {"includes", "excludes"}

\* faulty variant: range(min_suit, max_suit), the last suit is left out
product_cards_short ==
    LET nr == max_rank + 1 - min_rank
        ns == max_suit - min_suit
    IN  [k \in 1..(ns * nr) |->
            Card(min_suit + ((k - 1) \div nr), min_rank + ((k - 1) % nr))]

\* [Card(suit, rank) for suit, rank in itertools.product(range(..), range(..))]:
\* suit-major, rank-minor
product_cards ==
    LET nr == max_rank + 1 - min_rank
        ns == max_suit + 1 - min_suit
    IN  [k \in 1..(ns * nr) |->
            Card(min_suit + ((k - 1) \div nr), min_rank + ((k - 1) % nr))]

\* the list handed to random.shuffle
cards_of(joker_set) ==
    IF joker_set = "includes" THEN Append(product_cards, DefaultCard)
    ELSE product_cards

\* the outcomes of randbelow(n): any index within MaxSwapSpan of the top while
\* unrestricted draws remain, the top index (no swap) afterwards
RandBelow(n, free) ==
    IF free > 0 THEN {j \in 0..(n - 1) : n - 1 - j <= MaxSwapSpan} ELSE {n - 1}

\* x[i], x[j] = x[j], x[i] with Python's 0-based indices
Swap(x, i, j) ==
    [k \in 1..Len(x) |->
        IF k = i + 1 THEN x[j + 1] ELSE IF k = j + 1 THEN x[i + 1] ELSE x[k]]

RECURSIVE ShuffleFrom(_, _, _)
\* the iterations i, i-1, .., 1 of random.shuffle's loop; once every draw left
\* returns the top index, each remaining iteration swaps x[i] with itself
ShuffleFrom(x, i, free) ==
    IF i < 1 \/ RandBelow(i + 1, free) = {i} THEN {x}
    ELSE UNION {ShuffleFrom(Swap(x, i, j), i - 1, free - 1) : j \in RandBelow(i + 1, free)}

\* random.shuffle(x): for i in reversed(range(1, len(x))): j = randbelow(i + 1); swap
shuffle(x, free) == ShuffleFrom(x, Len(x) - 1, free)

RECURSIVE push_each(_, _)
\* for card in cards: deck.push_card(card); an exception ends the loop
push_each(stack, cards) ==
    IF cards = <<>> THEN stack
    ELSE LET r == push_card(stack, Head(cards))
         IN  IF r.ret # None THEN r.stack
             ELSE push_each(r.stack, Tail(cards))

\* set_shuffled_cards(deck, joker_set): the lists the deck may hold afterwards
set_shuffled_cards(stack, joker_set, free) ==
    {push_each(stack, s) : s \in shuffle(cards_of(joker_set), free)}

\* unrestricted draws one call consumes
draws_used(joker_set, free) ==
    LET n == Len(cards_of(joker_set)) - 1
    IN  IF free < n THEN free ELSE n

FreeDraws == MaxRandomDraws - rng_draws

Event(op, arg, ret) == [op |-> op, arg |-> arg, ret |-> ret]

JokerArg(joker_set) == [type |-> "JokerSet", name |-> joker_set]

----------------------------------------------------------------------------
(* Card construction on its own *)

CardInputs ==
    {<<s, r>> : s \in (min_suit - Slack)..(JOKER_SUIT + Slack),
                r \in (min_rank - Slack)..(JOKER_RANK + Slack)}

NoCmp == [self |-> Unbound, other |-> Unbound, eq |-> Unbound, lt |-> Unbound, gt |-> Unbound]

NoCall == [suit |-> 0, rank |-> 0, ret |-> Unbound]

InitLib ==
    /\ card_stack = <<>>
    /\ history = <<>>
    /\ rng_draws = 0
    /\ pc = "lib"
    /\ cnt = 0
    /\ card = Unbound
    /\ made = NoCall
    /\ cmp = NoCmp

\* a caller evaluates Card(suit, rank)
Construct(suit, rank) ==
    /\ made' = [suit |-> suit, rank |-> rank, ret |-> Card(suit, rank)]
    /\ UNCHANGED <<card_stack, history, rng_draws, pc, cnt, card, cmp>>

NextCard == \E a \in CardInputs : Construct(a[1], a[2])

SpecCard == InitLib /\ [][NextCard]_vars

----------------------------------------------------------------------------
(* Comparisons *)

\* every Card that construction accepts
ValidCards ==
    {Card(a[1], a[2]) : a \in {b \in CardInputs : isinstance_Card(Card(b[1], b[2]))}}

InitCompare ==
    /\ card_stack = <<>>
    /\ history = <<>>
    /\ rng_draws = 0
    /\ pc = "lib"
    /\ cnt = 0
    /\ card = Unbound
    /\ made = NoCall
    /\ \E a \in ValidCards, b \in ValidCards \cup NonCards :
          cmp = [NoCmp EXCEPT !.self = a, !.other = b]

\* self == other
CallEq ==
    /\ cmp.eq = Unbound
    /\ cmp' = [cmp EXCEPT !.eq = Card_eq(cmp.self, cmp.other)]
    /\ UNCHANGED <<card_stack, history, rng_draws, pc, cnt, card, made>>

\* self < other
CallLt ==
    /\ cmp.lt = Unbound
    /\ cmp' = [cmp EXCEPT !.lt = Card_lt(cmp.self, cmp.other)]
    /\ UNCHANGED <<card_stack, history, rng_draws, pc, cnt, card, made>>

\* self > other
CallGt ==
    /\ cmp.gt = Unbound
    /\ cmp' = [cmp EXCEPT !.gt = Card_gt(cmp.self, cmp.other)]
    /\ UNCHANGED <<card_stack, history, rng_draws, pc, cnt, card, made>>

NextCompare == CallEq \/ CallLt \/ CallGt

SpecCompare == InitCompare /\ [][NextCompare]_vars

----------------------------------------------------------------------------
(* Pushes and pops on one CardStack *)

StackInputs == {Card(1, 10), Card(4, 10), Card(5, 15), [type |-> "int", value |-> 7]}

\* card_stack.push_card(c)
PushCard(c) ==
    /\ Len(history) < MaxCalls
    /\ LET r == push_card(card_stack, c)
       IN  /\ card_stack' = r.stack
           /\ history' = Append(history, Event("push_card", c, r.ret))
    /\ UNCHANGED <<rng_draws, pc, cnt, card, made, cmp>>

\* card_stack.pop_card()
PopCard ==
    /\ Len(history) < MaxCalls
    /\ LET r == pop_card(card_stack)
       IN  /\ card_stack' = r.stack
           /\ history' = Append(history, Event("pop_card", None, r.ret))
    /\ UNCHANGED <<rng_draws, pc, cnt, card, made, cmp>>

NextStack == (\E c \in StackInputs : PushCard(c)) \/ PopCard

SpecStack == InitLib /\ [][NextStack]_vars

----------------------------------------------------------------------------
(* The population routine on a stack that may already hold cards *)

RefillInputs == {Card(1, 10), Card(JOKER_SUIT, 2)}

Populates == Len(SelectSeq(history, LAMBDA e : e.op = "set_shuffled_cards"))

\* the caller pushes a card of its own before populating
PrePush(c) ==
    /\ Populates = 0
    /\ Len(history) < MaxPre
    /\ LET r == push_card(card_stack, c)
       IN  /\ card_stack' = r.stack
           /\ history' = Append(history, Event("push_card", c, r.ret))
    /\ UNCHANGED <<rng_draws, pc, cnt, card, made, cmp>>

\* set_shuffled_cards(card_stack, joker_set)
Populate(joker_set) ==
    /\ Populates < MaxPopulate
    /\ card_stack' \in set_shuffled_cards(card_stack, joker_set, FreeDraws)
    /\ rng_draws' = rng_draws + draws_used(joker_set, FreeDraws)
    /\ history' = Append(history, Event("set_shuffled_cards", JokerArg(joker_set), None))
    /\ UNCHANGED <<pc, cnt, card, made, cmp>>

NextRefill == (\E c \in RefillInputs : PrePush(c)) \/ (\E js \in JokerSet : Populate(js))

SpecRefill == InitLib /\ [][NextRefill]_vars

----------------------------------------------------------------------------
(* The __main__ script: populate an empty stack, then pop until None *)

InitMain ==
    /\ card_stack = <<>>
    /\ history = <<>>
    /\ rng_draws = 0
    /\ pc = "start"
    /\ cnt = 0
    /\ card = Unbound
    /\ made = NoCall
    /\ cmp = NoCmp

\* card_stack = CardStack(); set_shuffled_cards(card_stack); cnt = 0
\* (__main__ passes the default, JokerSet.includes; a caller may pass either)
MainFill(joker_set) ==
    /\ pc = "start"
    /\ card_stack' \in set_shuffled_cards(<<>>, joker_set, FreeDraws)
    /\ rng_draws' = rng_draws + draws_used(joker_set, FreeDraws)
    /\ history' = Append(history, Event("set_shuffled_cards", JokerArg(joker_set), None))
    /\ cnt' = 0
    /\ pc' = "first_pop"
    /\ UNCHANGED <<card, made, cmp>>

\* card = card_stack.pop_card()
MainFirstPop ==
    /\ pc = "first_pop"
    /\ LET r == pop_card(card_stack)
       IN  /\ card_stack' = r.stack
           /\ card' = r.ret
           /\ history' = Append(history, Event("pop_card", None, r.ret))
    /\ pc' = "while"
    /\ UNCHANGED <<rng_draws, cnt, made, cmp>>

\* while card: cnt += 1; card = card_stack.pop_card()
MainLoop ==
    /\ pc = "while"
    /\ Truthy(card)
    /\ cnt' = cnt + 1
    /\ LET r == pop_card(card_stack)
       IN  /\ card_stack' = r.stack
           /\ card' = r.ret
           /\ history' = Append(history, Event("pop_card", None, r.ret))
    /\ UNCHANGED <<rng_draws, pc, made, cmp>>

\* the loop condition fails: print(cnt)
MainExit ==
    /\ pc = "while"
    /\ ~Truthy(card)
    /\ pc' = "done"
    /\ UNCHANGED <<card_stack, history, rng_draws, cnt, card, made, cmp>>

\* the statements of the drain: lines 260 to 264
Drain == MainFirstPop \/ MainLoop \/ MainExit

NextMain == (\E js \in JokerSet : MainFill(js)) \/ Drain

\* the script is a single thread: once the deck is populated, each statement
\* of the drain that is reached is run
SpecMain == InitMain /\ [][NextMain]_vars /\ WF_vars(Drain)

----------------------------------------------------------------------------
(* Vocabulary of the properties *)

Count(seq, c) == Cardinality({i \in 1..Len(seq) : seq[i] = c})

CardOf(s, r) == [type |-> "Card", suit |-> s, rank |-> r]

Joker == CardOf(5, 15)

IsValidCard(v) == v.type = "Card" /\ v.suit \in 1..5 /\ v.rank \in 2..15

\* seq holds each of the 52 suit/rank pairs exactly once and the Joker n times
FullSet(seq, n) ==
    /\ \A s \in 1..4, r \in 2..14 : Count(seq, CardOf(s, r)) = 1
    /\ Count(seq, Joker) = n
    /\ Len(seq) = 52 + n

JokersOf(e) == IF e.arg.name = "includes" THEN 1 ELSE 0

RECURSIVE Pending(_)
\* the cards a history has pushed and not popped, oldest first: a pop cancels
\* the latest push that is still pending
Pending(h) ==
    IF h = <<>> THEN <<>>
    ELSE LET p == Pending(Front(h))
             e == Last(h)
         IN  IF e.op = "push_card" /\ isinstance_Card(e.arg) THEN Append(p, e.arg)
             ELSE IF e.op = "pop_card" /\ p # <<>> THEN Front(p)
             ELSE p

\* the step is a call of op
Called(op) == history' # history /\ Last(history').op = op

\* the cards a step has put on top of what the stack held
Added == SubSeq(card_stack', Len(card_stack) + 1, Len(card_stack'))

Compared ==
    /\ isinstance_Card(cmp.other)
    /\ cmp.eq # Unbound /\ cmp.lt # Unbound /\ cmp.gt # Unbound

----------------------------------------------------------------------------
(* C1: once the population routine has filled an empty stack, the stack     *)
(* holds every pair of a suit in 1..4 and a rank in 2..14 exactly once, and *)
(* exactly one (5,15) card when the Joker is included (53 cards), none when *)
(* it is excluded (52 cards), whatever order the shuffle chose.             *)
C1_PopulateExact ==
    pc = "first_pop" => FullSet(card_stack, JokersOf(history[1]))

C1_Witness ==
    /\ pc = "first_pop"
    /\ history[1].arg.name = "includes"
    /\ Len(card_stack) = 53
    /\ card_stack[53] # Joker
    /\ card_stack[52] # CardOf(4, 14)

(* C2: a pop on a stack that holds cards returns the latest pushed card not *)
(* yet popped, and the stack is always the pending pushes in push order, so *)
(* a pop removes that one card and leaves the cards below as they were.     *)
C2_Lifo ==
    /\ card_stack = Pending(history)
    /\ \A i \in 1..Len(history) :
          LET before == Pending(SubSeq(history, 1, i - 1))
          IN  (history[i].op = "pop_card" /\ before # <<>>)
                  => history[i].ret = Last(before)

C2_Witness ==
    /\ Len(history) = 6
    /\ history[1] = Event("push_card", CardOf(1, 10), None)
    /\ history[2] = Event("push_card", CardOf(4, 10), None)
    /\ history[3] = Event("push_card", Joker, None)
    /\ history[4] = Event("pop_card", None, Joker)
    /\ history[5] = Event("pop_card", None, CardOf(4, 10))
    /\ history[6] = Event("pop_card", None, CardOf(1, 10))
    /\ card_stack = <<>>

(* C3: a pop on an empty stack returns None and raises nothing, leaves the  *)
(* stack empty, and a push of a Card right after it succeeds.               *)
C3_EmptyPop ==
    /\ [][(Called("pop_card") /\ card_stack = <<>>)
            => (Last(history').ret = None /\ card_stack' = <<>>)]_vars
    /\ [](LET n == Len(history)
          IN  (/\ n >= 2
               /\ history[n - 1] = Event("pop_card", None, None)
               /\ history[n].op = "push_card"
               /\ isinstance_Card(history[n].arg))
                  => (history[n].ret = None /\ card_stack = <<history[n].arg>>))

C3_Witness ==
    /\ Len(history) = 4
    /\ history[1].op = "push_card"
    /\ history[2].op = "pop_card"
    /\ history[3] = Event("pop_card", None, None)
    /\ history[4] = Event("push_card", Joker, None)
    /\ card_stack = <<Joker>>

(* C4: once the deck is populated the drain loop ends, and when it has ended it has counted one pop    *)
(* per populated card (53 with the Joker, 52 without), the pops returned    *)
(* each populated card exactly once, the stack is empty and the last pop,   *)
(* like any further one, returned None.                                     *)
C4_DrainEnds ==
    /\ (pc = "first_pop") ~> (pc = "done")
    /\ [](pc = "done" =>
            LET pops == SelectSeq(history, LAMBDA e : e.op = "pop_card")
                got == [i \in 1..(Len(pops) - 1) |-> pops[i].ret]
            IN  /\ cnt = 52 + JokersOf(history[1])
                /\ Len(pops) = cnt + 1
                /\ FullSet(got, JokersOf(history[1]))
                /\ Last(pops).ret = None
                /\ card_stack = <<>>
                /\ pop_card(card_stack).ret = None)

C4_Witness ==
    /\ pc = "done"
    /\ cnt = 53
    /\ history[1].arg.name = "includes"
    /\ history[2].ret # Joker

(* C5 as stated: for two valid Cards exactly one of ==, <, > is true.       *)
C5_ExactlyOne ==
    Compared =>
        Cardinality({k \in {"eq", "lt", "gt"} : cmp[k].value}) = 1

(* C5 as amended: == is true exactly when the ranks match; < and > are      *)
(* never both true, and one of them is true unless the two Cards have the   *)
(* same suit and rank; so exactly one of ==, <, > is true exactly when the  *)
(* ranks differ or the suits match, and two are true (== with < or >) when  *)
(* the ranks match and the suits differ.                                    *)
C5_Trichotomy ==
    Compared =>
        LET a == cmp.self
            b == cmp.other
            n == Cardinality({k \in {"eq", "lt", "gt"} : cmp[k].value})
        IN  /\ cmp.eq.value = (a.rank = b.rank)
            /\ ~(cmp.lt.value /\ cmp.gt.value)
            /\ (cmp.lt.value \/ cmp.gt.value) = (a # b)
            /\ (n = 1) = (a.rank # b.rank \/ a.suit = b.suit)
            /\ (n = 2) = (a.rank = b.rank /\ a.suit # b.suit)

C5_Witness ==
    /\ Compared
    /\ cmp.self = CardOf(1, 10)
    /\ cmp.other = CardOf(4, 10)
    /\ cmp.eq.value
    /\ cmp.lt.value
    /\ ~cmp.gt.value

(* C6: Card(suit, rank) returns a Card with those fields exactly when       *)
(* 1 <= suit <= 5 and 2 <= rank <= 15; otherwise it raises ValueError and   *)
(* no Card is produced.                                                     *)
C6_RangeValidation ==
    made.ret # Unbound =>
        IF made.suit \in 1..5 /\ made.rank \in 2..15
        THEN made.ret = CardOf(made.suit, made.rank)
        ELSE made.ret.type = "ValueError"

C6_Witness ==
    /\ made.suit = 6
    /\ made.rank = 15
    /\ made.ret.type = "ValueError"

(* C7 as stated: every Card that exists, in a deck too, has suit 5 exactly  *)
(* when it has rank 15.                                                     *)
C7_JokerCoupled ==
    \A i \in 1..Len(card_stack) :
        (card_stack[i].suit = 5) = (card_stack[i].rank = 15)

(* C7 as amended: every Card the population routine creates and pushes has  *)
(* suit 5 exactly when it has rank 15; construction itself accepts any suit *)
(* in 1..5 with any rank in 2..15, so a caller's own Card need not.         *)
C7_PopulatedCoupled ==
    [][Called("set_shuffled_cards") =>
          \A i \in 1..Len(Added) :
              /\ IsValidCard(Added[i])
              /\ (Added[i].suit = 5) = (Added[i].rank = 15)]_vars

C7_Witness ==
    /\ Len(history) = 2
    /\ history[2] = Event("set_shuffled_cards", JokerArg("includes"), None)
    /\ card_stack[1] = CardOf(5, 2)
    /\ Count(card_stack, Joker) = 1

(* C8: every element of the stack is a valid Card, and a push of a value    *)
(* that is not a Card raises TypeError and leaves the stack as it was.      *)
C8_OnlyCards ==
    /\ [](\A i \in 1..Len(card_stack) : IsValidCard(card_stack[i]))
    /\ [][(Called("push_card") /\ ~isinstance_Card(Last(history').arg))
            => (Last(history').ret.type = "TypeError" /\ card_stack' = card_stack)]_vars

C8_Witness ==
    /\ Len(history) = 3
    /\ history[2].op = "push_card"
    /\ history[2].arg.type = "int"
    /\ history[2].ret.type = "TypeError"
    /\ card_stack = <<CardOf(1, 10), CardOf(4, 10)>>

(* C9: a < b is true exactly when a.rank < b.rank, or the ranks are equal   *)
(* and a.suit < b.suit; a > b is true exactly when b < a is.                *)
C9_RankThenSuit ==
    (isinstance_Card(cmp.other) /\ cmp.lt # Unbound /\ cmp.gt # Unbound) =>
        LET a == cmp.self
            b == cmp.other
        IN  /\ cmp.lt.value =
                   (a.rank < b.rank \/ (a.rank = b.rank /\ a.suit < b.suit))
            /\ cmp.gt.value = Card_lt(b, a).value

C9_Witness ==
    /\ cmp.self = CardOf(4, 9)
    /\ cmp.other = CardOf(1, 10)
    /\ cmp.lt = Bool(TRUE)
    /\ cmp.gt = Bool(FALSE)

(* C10: the population routine keeps the cards the stack already holds, in  *)
(* their order, below the full set it adds (53 cards with the Joker, 52     *)
(* without); a stack populated twice and nothing else holds every suit/rank *)
(* pair exactly twice.                                                      *)
C10_KeepsContents ==
    /\ [][Called("set_shuffled_cards") =>
            /\ SubSeq(card_stack', 1, Len(card_stack)) = card_stack
            /\ FullSet(Added, JokersOf(Last(history')))]_vars
    /\ []((Len(history) = 2 /\ Populates = 2) =>
            /\ \A s \in 1..4, r \in 2..14 : Count(card_stack, CardOf(s, r)) = 2
            /\ Len(card_stack) = 104 + JokersOf(history[1]) + JokersOf(history[2]))

C10_Witness ==
    /\ Len(history) = 3
    /\ history[1] = Event("push_card", CardOf(1, 10), None)
    /\ Populates = 2
    /\ card_stack[1] = CardOf(1, 10)
    /\ Len(card_stack) = 1 + 53 + 52
    /\ Count(card_stack, CardOf(1, 10)) = 3

====
